---- MODULE Spec2Model ----
(***************************************************************************)
(* Model of the sequence forecasting pipeline of src/ai_analysis.py:       *)
(* SolarActivityPredictor (scaler, sequence builder, forecast model,        *)
(* confidence, insights) and AIReportGenerator (the report text).           *)
(*                                                                          *)
(* Numbers are integers.  An intensity is counted in steps of 1/Unit, a     *)
(* kp_index in whole units.  A scaled value (x - data_min) / data_range is  *)
(* the pair <<numerator, denominator>>; a confidence is a pair              *)
(* <<n, 2 * Unit>>.                                                         *)
(* The learned weights of the network are abstracted to the number of       *)
(* completed fits; the network's output is a fixed deterministic function   *)
(* of the weights and of the input window.                                  *)
(***************************************************************************)
EXTENDS Integers, Sequences, FiniteSets, TLC

VARIABLES predictor, generator, last, hist, disk, mem, clock, saved, run

vars == <<predictor, generator, last, hist, disk, mem, clock, saved, run>>

(* ---------------- program constants (SolarActivityPredictor.__init__) --- *)
sequence_length == 24
forecast_horizon == 12
n_features == 2
features == <<"intensity", "kp_index">>

\* freq='h': one hour, in the minutes the timestamps are counted in
Hour == 60

(* ---------------- bounds of the model -------------------------------- *)
\* the longest observation table has sequence_length + forecast_horizon + MaxPairs rows
MaxPairs == 3
\* the number of completed model fits is capped
MaxFits == 2
\* the resolution of the intensity values: 1.0 is Unit steps
Unit == 20
\* the unit a column is counted in
ColUnit(c) == IF c = 1 THEN Unit ELSE 1

(* ---------------- observation tables (the inputs) --------------------- *)
Kinds == {"ramp", "flat", "wave"}

\* row j (1-based) of a table of the given kind: <<intensity, kp_index>>.
\* "ramp" rises by 1.0 an hour, "slow" by 1/Unit an hour, "flat" is constant,
\* "nokp" is a ramp without the kp_index column (its second entry is never
\* read); "late" is counted from the end of the table: its trailing 24 rows
\* are nearly constant and the rows before them are a high plateau, and its
\* timestamps end at the same hour whatever its length
Row(kind, j) ==
    CASE kind = "ramp" -> <<Unit * j, j % 4>>
      [] kind = "flat" -> <<5 * Unit, 2>>
      [] kind = "slow" -> <<j, j % 4>>
      [] kind = "nokp" -> <<Unit * j, 0>>
      [] kind = "late" -> <<IF j < 24 THEN 5 * Unit + (j % 2) ELSE 20 * Unit,
                            IF j < 24 THEN 2 ELSE 2 + (j % 3)>>
      [] OTHER         -> <<Unit * ((j * j) % 7), 9 - (j % 5)>>

\* timestamp (minutes) of the first row of a table of the given kind
StartOf(kind) ==
    CASE kind = "ramp" -> 0
      [] kind = "flat" -> 90
      [] OTHER         -> 30

\* a table of T hourly rows: the feature columns and the timestamp index
MkData(T, kind) ==
    [ kind    |-> kind,
      columns |-> IF kind = "nokp" THEN {"intensity"}
                  ELSE {"intensity", "kp_index"},
      rows    |-> [j \in 1..T |-> Row(kind, IF kind = "late" THEN T - j ELSE j)],
      index   |-> [j \in 1..T |->
                      IF kind = "late" THEN StartOf(kind) + Hour * (j - T)
                      ELSE StartOf(kind) + Hour * (j - 1)] ]

\* the feature rows of the table of T rows of the given kind
RowsOf(T, kind) == MkData(T, kind).rows

\* the table lengths the lifecycle specification draws from: the edges
\* 0, 1, L-1, L, L+H-1 and every length from L+H to L+H+MaxPairs
Lengths ==
    {0, 1, sequence_length - 1, sequence_length,
     sequence_length + forecast_horizon - 1}
    \cup ((sequence_length + forecast_horizon) ..
          (sequence_length + forecast_horizon + MaxPairs))

\* the inputs of the calls: a ramp of every length, a flat and a wave
\* table of one window and of the greatest length, and a table of the
\* greatest length that lacks the kp_index column
Datasets ==
    { MkData(T, "ramp") : T \in Lengths }
    \cup { MkData(T, k) :
              T \in {sequence_length,
                     sequence_length + forecast_horizon + MaxPairs},
              k \in Kinds \ {"ramp"} }
    \cup { MkData(sequence_length + forecast_horizon + MaxPairs, "nokp") }

(* ---------------- helpers --------------------------------------------- *)
Min2(a, b) == IF a < b THEN a ELSE b
Max2(a, b) == IF a > b THEN a ELSE b
Abs(a) == IF a < 0 THEN -a ELSE a

RECURSIVE ColMin(_, _, _)
ColMin(rows, c, n) ==
    IF n = 1 THEN rows[1][c] ELSE Min2(rows[n][c], ColMin(rows, c, n - 1))

RECURSIVE ColMax(_, _, _)
ColMax(rows, c, n) ==
    IF n = 1 THEN rows[1][c] ELSE Max2(rows[n][c], ColMax(rows, c, n - 1))

\* mutant: the whole table is taken, not its last n rows
TailRows_All(s, n) == s

\* data.tail(n)
TailRows(s, n) ==
    IF Len(s) <= n THEN s ELSE SubSeq(s, Len(s) - n + 1, Len(s))

(* ---------------- the exceptions the code can raise -------------------- *)
\* an exception is its message and, when it wraps another, that one's message
NoError == [msg |-> "none", cause |-> ""]
\* ValueError("Model must be trained before making predictions")
NotTrainedError ==
    [msg |-> "Model must be trained before making predictions", cause |-> ""]
\* the scaler's ValueError on a table of zero rows
EmptyInputError == [msg |-> "Found array with 0 sample(s)", cause |-> ""]
\* the network's error on a fit with no training pair
EmptyFitError == [msg |-> "fit on zero training pairs", cause |-> ""]
\* the network's error on an input window that is not sequence_length long
ShapeError == [msg |-> "incompatible input shape", cause |-> ""]
\* the KeyError of data[self.features] on a table that lacks a feature column
MissingColumnError == [msg |-> "column not in index", cause |-> ""]
\* mutant: the prediction error drops the message of its cause
PredictionError_NoCause(e) == [msg |-> "Error making prediction", cause |-> ""]

\* ValueError(f"Error making prediction: {str(e)}"): the wrapped cause
PredictionError(e) == [msg |-> "Error making prediction", cause |-> e.msg]

(* ---------------- Scaler State (MinMaxScaler) -------------------------- *)
NoScaler == [data_min |-> <<0, 0>>, data_max |-> <<0, 0>>]

\* MinMaxScaler.fit: per-feature min and max over all rows
ScalerFit(rows) ==
    [ data_min |-> [c \in 1..n_features |-> ColMin(rows, c, Len(rows))],
      data_max |-> [c \in 1..n_features |-> ColMax(rows, c, Len(rows))] ]

\* the range of a feature; a constant feature is scaled by 1.0, not by 0
ScalerRange(scaler, c) ==
    IF scaler.data_max[c] = scaler.data_min[c] THEN ColUnit(c)
    ELSE scaler.data_max[c] - scaler.data_min[c]

\* MinMaxScaler.transform: (x - data_min) / range, values outside the
\* fitted range are extrapolated
ScalerTransform(scaler, rows) ==
    [j \in 1..Len(rows) |->
        [c \in 1..n_features |->
            <<rows[j][c] - scaler.data_min[c], ScalerRange(scaler, c)>>]]

\* MinMaxScaler.inverse_transform of a scaled integer value of feature c
ScalerInverse(scaler, c, v) == v * ScalerRange(scaler, c) + scaler.data_min[c]

(* ---------------- Forecast Model --------------------------------------- *)
NoModel == [built |-> FALSE, input_shape |-> <<0, 0>>, units |-> 0, weights |-> 0]

\* _build_model: Input(shape=input_shape) ... Dense(forecast_horizon)
build_model(input_shape) ==
    [built |-> TRUE, input_shape |-> input_shape,
     units |-> forecast_horizon, weights |-> 0]

\* mutant: a failed fit throws the model away
ModelFit_Discarding(model, X_train, y_train) ==
    IF Len(X_train) = 0
    THEN [model |-> NoModel, raised |-> EmptyFitError]
    ELSE [model |-> [model EXCEPT !.weights = model.weights + 1],
          raised |-> NoError]

\* model.fit: raises on an empty training partition, else updates the weights
ModelFit(model, X_train, y_train) ==
    IF Len(X_train) = 0
    THEN [model |-> model, raised |-> EmptyFitError]
    ELSE [model |-> [model EXCEPT !.weights = model.weights + 1],
          raised |-> NoError]

\* model.predict on one window: raises on a window of the wrong shape, else
\* returns `units` scaled values
ModelPredict(model, sequence) ==
    IF <<Len(sequence), n_features>> # model.input_shape
    THEN [raised |-> ShapeError, prediction |-> <<>>]
    ELSE [raised |-> NoError,
          prediction |->
            [k \in 1..model.units |->
                (model.weights + sequence[Len(sequence)][1][1] + k * k) % 3]]

(* ---------------- Predictor -------------------------------------------- *)
\* SolarActivityPredictor.__init__
NewPredictor ==
    [model |-> NoModel, scaler |-> NoScaler, is_fitted |-> FALSE]

\* mutant: the scaler is fitted again on every call
NeedsFit_Always(self) == TRUE

\* `if not self._is_fitted` of prepare_sequences
NeedsFit(self) == ~self.is_fitted

\* range(len(scaled_data) - sequence_length - forecast_horizon)
PairRange(n) == 0 .. (n - sequence_length - forecast_horizon - 1)

\* scaled_data[i:(i + sequence_length)], i 0-based
InputWindow(scaled_data, i) ==
    SubSeq(scaled_data, i + 1, i + sequence_length)

\* mutant: the target window starts one row late
TargetWindow_Gap(scaled_data, i) ==
    [k \in 1..forecast_horizon |-> scaled_data[i + sequence_length + k + 1][1]]

\* scaled_data[i + sequence_length : i + sequence_length + forecast_horizon, 0]
TargetWindow(scaled_data, i) ==
    [k \in 1..forecast_horizon |-> scaled_data[i + sequence_length + k][1]]

\* data[self.features] can be taken
HasFeatures(data) == \A c \in 1..n_features : features[c] \in data.columns

prepare_sequences(self, data) ==
    IF ~HasFeatures(data)
    THEN [self |-> self, raised |-> MissingColumnError, fit_now |-> FALSE,
          scaled_data |-> <<>>, X |-> <<>>, y |-> <<>>]
    ELSE IF Len(data.rows) = 0
    THEN [self |-> self, raised |-> EmptyInputError, fit_now |-> FALSE,
          scaled_data |-> <<>>, X |-> <<>>, y |-> <<>>]
    ELSE
      LET self1 == IF NeedsFit(self)
                   THEN [self EXCEPT !.scaler = ScalerFit(data.rows),
                                     !.is_fitted = TRUE]
                   ELSE self
          scaled_data == ScalerTransform(self1.scaler, data.rows)
          n == Cardinality(PairRange(Len(scaled_data)))
      IN [self |-> self1, raised |-> NoError, fit_now |-> NeedsFit(self),
          scaled_data |-> scaled_data,
          X |-> [p \in 1..n |-> InputWindow(scaled_data, p - 1)],
          y |-> [p \in 1..n |-> TargetWindow(scaled_data, p - 1)]]

\* mutant: the model is rebuilt on every train call
NeedsBuild_Always(self) == TRUE

\* `if self.model is None` of train
NeedsBuild(self) == ~self.model.built

\* int(len(X) * 0.8)
SplitIndex(n) == (n * 4) \div 5

\* X[:split]
TrainPart(X, split) == SubSeq(X, 1, split)

\* mutant: the validation partition starts one pair early
ValPart_Overlap(X, split) == SubSeq(X, Max2(1, split), Len(X))

\* X[split:]
ValPart(X, split) == SubSeq(X, split + 1, Len(X))

train(self, data) ==
    LET ps == prepare_sequences(self, data) IN
    IF ps.raised # NoError
    THEN [self |-> ps.self, raised |-> ps.raised, ps |-> ps, built |-> FALSE,
          split |-> 0, fit_called |-> FALSE, metrics |-> FALSE,
          X_train |-> <<>>, X_val |-> <<>>, y_train |-> <<>>, y_val |-> <<>>]
    ELSE
      LET built == NeedsBuild(ps.self)
          self1 == IF built
                   THEN [ps.self EXCEPT
                           !.model = build_model(<<sequence_length, n_features>>)]
                   ELSE ps.self
          split == SplitIndex(Len(ps.X))
          X_train == TrainPart(ps.X, split)
          X_val == ValPart(ps.X, split)
          y_train == TrainPart(ps.y, split)
          y_val == ValPart(ps.y, split)
          fit == ModelFit(self1.model, X_train, y_train)
      IN [self |-> [self1 EXCEPT !.model = fit.model],
          raised |-> fit.raised, ps |-> ps, built |-> built,
          split |-> split, fit_called |-> TRUE,
          metrics |-> (fit.raised = NoError),
          X_train |-> X_train, X_val |-> X_val,
          y_train |-> y_train, y_val |-> y_val]

\* mutant: predict_future without its guards
IsTrained_Unguarded(self) == TRUE

\* the two guards of predict_future
IsTrained(self) == self.model.built /\ self.is_fitted

\* mutant: the range is not cut by [1:], so it starts at the last timestamp
ForecastTimes_FromLast(index) ==
    [k \in 1..forecast_horizon |-> index[Len(index)] + Hour * (k - 1)]

\* pd.date_range(start=data.index[-1], periods=forecast_horizon + 1, freq='h')[1:]
ForecastTimes(index) ==
    [k \in 1..forecast_horizon |-> index[Len(index)] + Hour * k]

\* mutant: the difference is not halved
calculate_confidence_NotHalved(predictions) ==
    [i \in 1..Len(predictions) |->
        LET d == IF i = 1 THEN 0 ELSE Abs(predictions[i] - predictions[i - 1])
        IN <<Max2(0, Min2(2 * Unit, 2 * Unit - 2 * d)), 2 * Unit>>]

\* mutant: the result is not clipped
calculate_confidence_Unclipped(predictions) ==
    [i \in 1..Len(predictions) |->
        LET d == IF i = 1 THEN 0 ELSE Abs(predictions[i] - predictions[i - 1])
        IN <<2 * Unit - d, 2 * Unit>>]

\* 1.0 - |diff(predictions, prepend=predictions[0])| / 2, clipped to [0, 1]:
\* with d the step in 1/Unit, 1 - d / (2 * Unit) = (2 * Unit - d) / (2 * Unit)
calculate_confidence(predictions) ==
    [i \in 1..Len(predictions) |->
        LET d == IF i = 1 THEN 0 ELSE Abs(predictions[i] - predictions[i - 1])
        IN <<Max2(0, Min2(2 * Unit, 2 * Unit - d)), 2 * Unit>>]

predict_future(self, data) ==
    IF ~IsTrained(self)
    THEN [raised |-> NotTrainedError, forecast |-> <<>>]
    ELSE
      LET latest_data == TailRows(data.rows, sequence_length) IN
      IF ~HasFeatures(data)
      THEN [raised |-> PredictionError(MissingColumnError), forecast |-> <<>>]
      ELSE IF Len(latest_data) = 0
      THEN [raised |-> PredictionError(EmptyInputError), forecast |-> <<>>]
      ELSE
        LET sequence == ScalerTransform(self.scaler, latest_data)
            mp == ModelPredict(self.model, sequence)
        IN IF mp.raised # NoError
           THEN [raised |-> PredictionError(mp.raised), forecast |-> <<>>]
           ELSE
             LET prediction_rescaled ==
                   [k \in 1..Len(mp.prediction) |->
                       ScalerInverse(self.scaler, 1, mp.prediction[k])]
                 forecast_times == ForecastTimes(data.index)
                 confidence == calculate_confidence(prediction_rescaled)
             IN [raised |-> NoError,
                 forecast |->
                   [k \in 1..Len(prediction_rescaled) |->
                      [timestamp |-> forecast_times[k],
                       predicted_intensity |-> prediction_rescaled[k],
                       confidence |-> confidence[k]]]]

(* ---------------- generate_insights ------------------------------------ *)
RECURSIVE SumSeq(_, _)
SumSeq(s, n) == IF n = 0 THEN 0 ELSE s[n] + SumSeq(s, n - 1)

Column(rows, c) == [j \in 1..Len(rows) |-> rows[j][c]]
Products(a, b) == [j \in 1..Len(a) |-> a[j] * b[j]]

\* mutant: every rise, however slow, is reported as a trend
TrendInsight_NoThreshold(intensity) ==
    LET t == TailRows(intensity, 24)
        n == Len(t)
    IN IF n < 2 \/ t[n] = t[1] THEN <<>>
       ELSE IF t[n] - t[1] > 0 THEN <<"increasing trend">>
                               ELSE <<"decreasing trend">>

\* data['intensity'].tail(24).diff().mean() compared with 0.1: the mean of
\* the n-1 differences of the trailing window is (last - first) / (n - 1);
\* it is NaN (no insight) on fewer than two rows
TrendInsight(intensity) ==
    LET t == TailRows(intensity, 24)
        n == Len(t)
    IN IF n < 2 THEN <<>>
       ELSE IF 10 * Abs(t[n] - t[1]) > Unit * (n - 1)
            THEN IF t[n] - t[1] > 0 THEN <<"increasing trend">>
                                    ELSE <<"decreasing trend">>
            ELSE <<>>

\* a/c > d/b for a, d >= 0 and b, c > 0, by the continued fractions of the two
\* sides (the products a*b and c*d do not fit the checker's integers)
RECURSIVE FracGreater(_, _, _, _)
FracGreater(a, c, d, b) ==
    LET q1 == a \div c
        q2 == d \div b
        r1 == a % c
        r2 == d % b
    IN IF q1 # q2 THEN q1 > q2
       ELSE IF r1 = 0 THEN FALSE
       ELSE IF r2 = 0 THEN TRUE
       ELSE FracGreater(b, r2, c, r1)

\* data['intensity'].std() > data['intensity'].mean() * 0.5, both over the
\* whole table: with S the sum and Q the sum of squares of T values,
\* std^2 = (T*Q - S*S) / (T*(T-1)) and mean = S / T
VariabilityInsight(intensity) ==
    LET T == Len(intensity)
        S == SumSeq(intensity, T)
        Q == SumSeq(Products(intensity, intensity), T)
    IN IF T < 2 THEN <<>>
       ELSE IF S < 0 THEN <<"high variability">>
       ELSE IF S = 0 THEN IF T * Q > 0 THEN <<"high variability">> ELSE <<>>
       ELSE IF FracGreater(T * Q - S * S, S * S, T - 1, 4 * T)
            THEN <<"high variability">>
            ELSE <<>>

\* abs(data['intensity'].corr(data['kp_index'])) > 0.7 over the whole table;
\* the correlation is NaN (no insight) when a column is constant
CorrelationInsight(intensity, kp_index) ==
    LET T == Len(intensity)
        Sx == SumSeq(intensity, T)
        Sy == SumSeq(kp_index, T)
        vx == T * SumSeq(Products(intensity, intensity), T) - Sx * Sx
        vy == T * SumSeq(Products(kp_index, kp_index), T) - Sy * Sy
        cov == T * SumSeq(Products(intensity, kp_index), T) - Sx * Sy
    IN IF T < 2 \/ vx = 0 \/ vy = 0 THEN <<>>
       ELSE IF cov # 0 /\ FracGreater(10 * Abs(cov), vx, 49 * vy, 10 * Abs(cov))
            THEN IF cov > 0 THEN <<"strong positive correlation">>
                            ELSE <<"strong negative correlation">>
            ELSE <<>>

generate_insights(self, data) ==
    TrendInsight(Column(data.rows, 1))
    \o VariabilityInsight(Column(data.rows, 1))
    \o (IF "kp_index" \in data.columns
        THEN CorrelationInsight(Column(data.rows, 1), Column(data.rows, 2))
        ELSE <<>>)

(* ---------------- AIReportGenerator ------------------------------------ *)
\* ValueError("No forecast data generated")
NoForecastError == [msg |-> "No forecast data generated", cause |-> ""]
\* the error of the detail formatting: a column the forecast lacks, a
\* timestamp that is not a time
FormatError == [msg |-> "cannot format forecast details", cause |-> ""]

\* pandas' NaT, a timestamp that is not a time
NaT == -1

\* the columns of the forecast predict_future returns
ForecastColumns == {"timestamp", "predicted_intensity", "confidence"}

\* a line of the report: its fixed text, the text and the numbers formatted
\* into it
Line(text) == [text |-> text, arg |-> "", cause |-> "", a |-> 0, b |-> 0, c |-> 0]

\* the format specs .2f, .2% and .1%: scale * n / d rounded to an integer
Round(n, d, scale) == (2 * scale * n + d) \div (2 * d)

\* strftime('%H:%M'): the minute of the day
HourMinute(t) == t % (24 * Hour)

\* forecast['predicted_intensity'].idxmax(): the first row of the maximum
IdxMax(forecast) ==
    CHOOSE i \in 1..Len(forecast) :
        /\ \A j \in 1..Len(forecast) :
              forecast[j].predicted_intensity <= forecast[i].predicted_intensity
        /\ \A j \in 1..(i - 1) :
              forecast[j].predicted_intensity < forecast[i].predicted_intensity

HeaderLines ==
    <<Line("AI-Powered Solar Activity Analysis"), Line("========"), Line(""),
      Line("Forecast Summary:"), Line("--------")>>

\* the lines of the forecast summary and the head of the listing
SummaryLines(forecast) ==
    LET i == IdxMax(forecast)
        conf == [k \in 1..Len(forecast) |-> forecast[k].confidence[1]]
    IN << [Line("Peak Activity") EXCEPT
              !.a = Round(forecast[i].predicted_intensity, Unit, 100),
              !.b = forecast[i].timestamp],
          [Line("Average Confidence") EXCEPT
              !.a = Round(SumSeq(conf, Len(conf)),
                          Len(conf) * forecast[1].confidence[2], 10000)],
          Line(""), Line("Predictions for next 12 hours:"), Line("--------") >>

\* the line of one forecast record
PredictionLine(row) ==
    [Line("prediction") EXCEPT
        !.a = HourMinute(row.timestamp),
        !.b = Round(row.predicted_intensity, Unit, 100),
        !.c = Round(row.confidence[1], row.confidence[2], 1000)]

PlaceholderLine == Line("Error processing forecast details")

\* the body of the inner try: the summary is appended in one extend, then one
\* line per record up to the first record that cannot be formatted
forecast_details(forecast, columns) ==
    IF Len(forecast) = 0 \/ ~(ForecastColumns \subseteq columns)
    THEN [raised |-> FormatError, lines |-> <<>>]
    ELSE
      LET bad == {k \in 1..Len(forecast) : forecast[k].timestamp = NaT}
          stop == IF bad = {} THEN Len(forecast)
                  ELSE (CHOOSE k \in bad : \A j \in bad : k <= j) - 1
      IN [raised |-> IF bad = {} THEN NoError ELSE FormatError,
          lines  |-> SummaryLines(forecast)
                     \o [k \in 1..stop |-> PredictionLine(forecast[k])]]

\* mutant: the inner handler lets the failure through
DetailsHandler_Reraise(d) == d

\* the inner except: the failure is logged and the placeholder line appended
DetailsHandler(d) ==
    IF d.raised # NoError
    THEN [raised |-> NoError, lines |-> d.lines \o <<PlaceholderLine>>]
    ELSE d

InsightLines(insights) ==
    <<Line(""), Line("Key Insights:"), Line("--------")>>
    \o [k \in 1..Len(insights) |-> [Line("bullet") EXCEPT !.arg = insights[k]]]

RecommendationLines ==
    <<Line(""), Line("Recommendations:"), Line("--------"),
      [Line("bullet") EXCEPT !.arg = "Monitor solar activity closely during predicted peak times"],
      [Line("bullet") EXCEPT !.arg = "Prepare for potential impacts during high-activity periods"],
      [Line("bullet") EXCEPT !.arg = "Update prediction models with new data regularly"]>>

\* mutant: the forecast is never found empty
IsEmpty_Never(forecast) == FALSE

\* forecast.empty
IsEmpty(forecast) == Len(forecast) = 0

\* generate_report from the forecast on: the lines of the report, or the
\* exception that leaves the outer try
report_body(forecast, columns, insights) ==
    IF IsEmpty(forecast)
    THEN [raised |-> NoForecastError, report |-> <<>>]
    ELSE LET d == DetailsHandler(forecast_details(forecast, columns))
         IN IF d.raised # NoError
            THEN [raised |-> d.raised, report |-> <<>>]
            ELSE [raised |-> NoError,
                  report |-> HeaderLines \o d.lines \o InsightLines(insights)
                             \o RecommendationLines]

\* f"Error generating report: {str(e)}"
ErrorLine(e) ==
    [Line("Error generating report") EXCEPT !.arg = e.msg, !.cause = e.cause]

\* the outer except: every exception is logged and its message returned as
\* the text of the report
ReportHandler(self, body) ==
    IF body.raised # NoError
    THEN [self |-> self, raised |-> NoError, caught |-> body.raised,
          report |-> <<ErrorLine(body.raised)>>]
    ELSE [self |-> self, raised |-> NoError, caught |-> NoError,
          report |-> body.report]

\* generate_report from the forecast on, with the outer handler
assemble_report(forecast, columns, insights) ==
    ReportHandler(NewPredictor, report_body(forecast, columns, insights))

\* AIReportGenerator.generate_report
generate_report(self, data) ==
    LET mine == self.predictor
        t == IF NeedsBuild(mine) THEN train(mine, data)
             ELSE [self |-> mine, raised |-> NoError]
        trained == [self EXCEPT !.predictor = t.self]
    IN IF t.raised # NoError
       THEN ReportHandler(trained, [raised |-> t.raised, report |-> <<>>])
       ELSE LET p == predict_future(t.self, data)
            IN IF p.raised # NoError
               THEN ReportHandler(trained, [raised |-> p.raised, report |-> <<>>])
               ELSE ReportHandler(trained,
                        report_body(p.forecast, ForecastColumns,
                                    generate_insights(t.self, data)))

(* ---------------- DataCache (src/data_cache.py) ------------------------ *)
\* the clock runs in ticks, HourTicks of them to the hour, up to MaxClock
HourTicks == 1

MaxClock == 2

\* get(source, params, max_age_hours=24)
DefaultMaxAge == 24

\* max_age_hours=None of clear
NoAge == 0 - 1

\* source=None of clear
NoSource == ""

Sources == {"source1", "source2"}

\* the DataCache objects that share one cache directory
Instances == {1, 2}

\* a params dict is the sequence of its (key, value) items in insertion
\* order; a key is the rank of its name in the order of the key names
\* ("end_date" is 1, "start_date" is 2)
ParamsAB == << <<1, 7>>, <<2, 1>> >>

\* the same dict as ParamsAB, built in the other order
ParamsBA == << <<2, 1>>, <<1, 7>> >>

\* another value under one key
ParamsOther == << <<1, 8>>, <<2, 1>> >>

\* the dict itself: two dicts are equal when they hold the same items
DictOf(params) == { params[i] : i \in 1..Len(params) }

RECURSIVE SortedItems(_)
\* the items of a dict in the order of their keys
SortedItems(items) ==
    IF items = <<>> THEN <<>>
    ELSE LET m == CHOOSE i \in 1..Len(items) :
                     \A j \in 1..Len(items) : items[i][1] <= items[j][1]
         IN <<items[m]>>
            \o SortedItems([j \in 1..(Len(items) - 1) |->
                               IF j < m THEN items[j] ELSE items[j + 1]])

\* mutant: the items are written in insertion order
dumps_Unsorted(params) == params

\* json.dumps(params, sort_keys=True): the text is given by the items in
\* key order
dumps(params) == SortedItems(params)

\* _generate_cache_key: the md5 digest of "<source>_<param_str>", taken as
\* free of collisions
generate_cache_key(source, params) == <<source, dumps(params)>>

\* a one-column-per-field table as the tests build it
CacheTable(v) ==
    [columns |-> <<"timestamp", "intensity">>, rows |-> << <<1, v>>, <<2, v + 1>> >>]

EmptyTable == [columns |-> <<"timestamp", "intensity">>, rows |-> <<>>]

\* df.to_parquet: the file holds the schema and one chunk per column
to_parquet(df) ==
    [schema   |-> df.columns,
     num_rows |-> Len(df.rows),
     chunks   |-> [c \in 1..Len(df.columns) |->
                     [r \in 1..Len(df.rows) |-> df.rows[r][c]]]]

\* pd.read_parquet: the rows are put together from the column chunks
read_parquet(file) ==
    [columns |-> file.schema,
     rows    |-> [r \in 1..file.num_rows |->
                    [c \in 1..Len(file.schema) |-> file.chunks[c][r]]]]

\* what get returns: a table, or None
None == [found |-> FALSE, df |-> EmptyTable]

Some(df) == [found |-> TRUE, df |-> df]

NoEntries == [k \in {} |-> 0]

\* the cache directory after the first DataCache was constructed on it: no
\* data file, and the metadata file holds {}
EmptyDir == [files |-> NoEntries, metadata |-> NoEntries]

\* f with the keys of S removed
Without(f, S) == [k \in (DOMAIN f) \ S |-> f[k]]

\* f with f[k] = v
With(f, k, v) == [x \in (DOMAIN f) \cup {k} |-> IF x = k THEN v ELSE f[x]]

\* _load_metadata of a newly constructed DataCache: the instance holds a
\* copy of the metadata file as it is at that time
load_metadata(dk) == dk.metadata

\* _save_metadata: the file is overwritten with the instance's metadata
save_metadata(md, dk) == [dk EXCEPT !.metadata = md]

\* mutant: no entry ever expires
Expired_Never(now, timestamp, max_age) == FALSE

\* datetime.now() - cache_time > timedelta(hours=max_age_hours)
Expired(now, timestamp, max_age) == now - timestamp > HourTicks * max_age

\* DataCache.get on an instance with metadata md, at clock reading now
cache_get(md, dk, now, source, params, max_age) ==
    LET cache_key == generate_cache_key(source, params)
    IN IF cache_key \notin DOMAIN md
       THEN [metadata |-> md, disk |-> dk, value |-> None]
       ELSE IF md[cache_key].filename \notin DOMAIN dk.files
       THEN LET md2 == Without(md, {cache_key})
            IN [metadata |-> md2, disk |-> save_metadata(md2, dk),
                value |-> None]
       ELSE IF Expired(now, md[cache_key].timestamp, max_age)
       THEN [metadata |-> md, disk |-> dk, value |-> None]
       ELSE [metadata |-> md, disk |-> dk,
             value |-> Some(read_parquet(dk.files[md[cache_key].filename]))]

\* DataCache.save
cache_save(md, dk, now, df, source, params) ==
    IF df.rows = <<>>
    THEN [metadata |-> md, disk |-> dk]
    ELSE LET cache_key == generate_cache_key(source, params)
             filename  == cache_key
             dk2 == [dk EXCEPT !.files = With(@, filename, to_parquet(df))]
             md2 == With(md, cache_key,
                         [filename |-> filename, timestamp |-> now,
                          source |-> source, params |-> params])
         IN [metadata |-> md2, disk |-> save_metadata(md2, dk2)]

\* the entries one clear call removes
should_remove(md, now, source, max_age) ==
    { key \in DOMAIN md :
         IF source # NoSource /\ md[key].source = source THEN TRUE
         ELSE IF max_age # NoAge /\ max_age # 0
         THEN Expired(now, md[key].timestamp, max_age)
         ELSE FALSE }

\* DataCache.clear
cache_clear(md, dk, now, source, max_age) ==
    LET keys_to_remove == should_remove(md, now, source, max_age)
        dk2 == [dk EXCEPT !.files =
                   Without(@, { md[key].filename : key \in keys_to_remove })]
        md2 == Without(md, keys_to_remove)
    IN IF keys_to_remove = {}
       THEN [metadata |-> md, disk |-> dk]
       ELSE [metadata |-> md2, disk |-> save_metadata(md2, dk2)]

\* the record of a call on a DataCache
CacheCall(op, i, now, source, params, max_age, df, value) ==
    [op |-> op, instance |-> i, now |-> now, source |-> source, params |-> params,
     max_age |-> max_age, df |-> df, value |-> value]

\* what was saved: for a source and a dict, the table and the time of the
\* latest save, and whether no clear call since could have been meant to
\* remove it
NothingSaved == NoEntries

SavedKey(source, params) == <<source, DictOf(params)>>

NoteSave(sv, now, df, source, params) ==
    IF df.rows = <<>> THEN sv
    ELSE LET g == SavedKey(source, params)
         IN With(sv, g, [df |-> df, timestamp |-> now,
                         source |-> source, kept |-> TRUE])

NoteClear(sv, now, source, max_age) ==
    [g \in DOMAIN sv |->
        IF \/ source = NoSource /\ max_age = NoAge
           \/ sv[g].source = source
           \/ max_age # NoAge /\ now - sv[g].timestamp > HourTicks * max_age
        THEN [sv[g] EXCEPT !.kept = FALSE]
        ELSE sv[g]]

(* ---------------- main() (src/main.py) --------------------------------- *)
\* the most rows of a table a stage of main hands on
MaxMainRows == 2

\* the stages in the order main calls them
Stages == <<"fetch", "validate", "preprocess", "train", "predict", "visualize">>

\* the classes of the exceptions raised inside main; KeyboardInterrupt
\* and SystemExit are the ones that do not derive from Exception
ExceptionClasses == {"ConfigurationError", "ValueError", "KeyError", "OSError"}

\* what a stage other than validate_data does is its caller's environment:
\* it returns a value of its kind or raises
StageRaises == {"KeyError", "OSError", "ValueError"}

\* a table as main looks at it: its columns, its number of rows and whether
\* its first timestamp is a pd.Timestamp
MainTable(columns, n, stamped) ==
    [columns |-> columns, n |-> n, stamped |-> stamped]

NoTable == MainTable({}, 0, FALSE)

required_columns == {"timestamp", "intensity", "location"}

\* what fetch_solar_data can return
FetchedTables ==
    {NoTable, MainTable({"invalid"}, 1, FALSE)}
    \cup { MainTable(required_columns \ {c}, 1, c # "timestamp") :
              c \in required_columns }
    \cup { MainTable(required_columns, 0, FALSE) }
    \cup { MainTable(required_columns \cup extra, n, stamped) :
              extra \in {{}, {"kp_index"}}, n \in 1..MaxMainRows,
              stamped \in BOOLEAN }

\* what preprocess_data can return for a table
ProcessedTables(data) ==
    { MainTable(data.columns \cup extra, n, data.stamped) :
         extra \in {{}, {"event"}}, n \in 0..data.n }

\* data.empty
IsEmptyTable(data) == data.n = 0 \/ data.columns = {}

\* validate_data: the exception it raises, "none" if it returns True
validate_data(data) ==
    IF required_columns \ data.columns # {} THEN "ValueError"
    ELSE IF ~data.stamped THEN "ValueError"
    ELSE "none"

NotStarted ==
    [pc |-> "start", calls |-> <<>>, data |-> NoTable, processed |-> NoTable,
     model |-> "None", prediction |-> "None", returned |-> "none",
     raised |-> "none"]

\* mutant: only the two named handlers, without the last except clause
main_handler_NamedOnly(rn, e) ==
    IF e \in {"ConfigurationError", "ValueError"}
    THEN [rn EXCEPT !.pc = "done", !.returned = "False"]
    ELSE [rn EXCEPT !.pc = "done", !.raised = e]

\* the except clauses of main: every exception that derives from Exception
\* is logged and False is returned
main_handler(rn, e) ==
    IF e = "ConfigurationError"
    THEN [rn EXCEPT !.pc = "done", !.returned = "False"]
    ELSE IF e = "ValueError"
    THEN [rn EXCEPT !.pc = "done", !.returned = "False"]
    ELSE IF e \in ExceptionClasses
    THEN [rn EXCEPT !.pc = "done", !.returned = "False"]
    ELSE [rn EXCEPT !.pc = "done", !.raised = e]

\* main with stage s called
Called(rn, s) == [rn EXCEPT !.calls = Append(@, s)]

\* load_config, setup_directories and the logging set-up
main_setup(rn, outcome) ==
    IF outcome # "ok" THEN main_handler(rn, outcome)
    ELSE [rn EXCEPT !.pc = "fetch"]

\* data = fetch_solar_data(...); if data.empty: raise ValueError
main_fetch(rn, outcome, data) ==
    LET rn2 == Called(rn, "fetch")
    IN IF outcome # "ok" THEN main_handler(rn2, outcome)
       ELSE IF IsEmptyTable(data)
       THEN main_handler([rn2 EXCEPT !.data = data], "ValueError")
       ELSE [rn2 EXCEPT !.data = data, !.pc = "validate"]

\* validate_data(data); generate_report(...)
main_validate(rn, report_outcome) ==
    LET rn2 == Called(rn, "validate")
    IN IF validate_data(rn.data) # "none"
       THEN main_handler(rn2, validate_data(rn.data))
       ELSE IF report_outcome # "ok" THEN main_handler(rn2, report_outcome)
       ELSE [rn2 EXCEPT !.pc = "preprocess"]

\* processed_data = preprocess_data(data); empty: raise; generate_report
main_preprocess(rn, outcome, processed, report_outcome) ==
    LET rn2 == Called(rn, "preprocess")
    IN IF outcome # "ok" THEN main_handler(rn2, outcome)
       ELSE IF IsEmptyTable(processed)
       THEN main_handler([rn2 EXCEPT !.processed = processed], "ValueError")
       ELSE IF report_outcome # "ok"
       THEN main_handler([rn2 EXCEPT !.processed = processed], report_outcome)
       ELSE [rn2 EXCEPT !.processed = processed, !.pc = "train"]

\* model = train_model(processed_data); None: raise; to_pickle;
\* generate_report
main_train(rn, outcome, model, report_outcome) ==
    LET rn2 == Called(rn, "train")
    IN IF outcome # "ok" THEN main_handler(rn2, outcome)
       ELSE IF model = "None" THEN main_handler(rn2, "ValueError")
       ELSE IF report_outcome # "ok"
       THEN main_handler([rn2 EXCEPT !.model = model], report_outcome)
       ELSE [rn2 EXCEPT !.model = model, !.pc = "predict"]

\* new_data = processed_data.iloc[[-1]].drop(columns=["event"]);
\* prediction = predict_event(model, new_data); generate_report if not None
main_predict(rn, outcome, prediction, report_outcome) ==
    IF "event" \notin rn.processed.columns THEN main_handler(rn, "KeyError")
    ELSE LET rn2 == Called(rn, "predict")
         IN IF outcome # "ok" THEN main_handler(rn2, outcome)
            ELSE IF prediction # "None" /\ report_outcome # "ok"
            THEN main_handler([rn2 EXCEPT !.prediction = prediction],
                              report_outcome)
            ELSE [rn2 EXCEPT !.prediction = prediction, !.pc = "visualize"]

\* visualize_data(data); plt.savefig; generate_report; return True
main_visualize(rn, outcome, report_outcome) ==
    LET rn2 == Called(rn, "visualize")
    IN IF outcome # "ok" THEN main_handler(rn2, outcome)
       ELSE IF report_outcome # "ok" THEN main_handler(rn2, report_outcome)
       ELSE [rn2 EXCEPT !.pc = "done", !.returned = "True"]

\* no DataCache call was made and main was not started
NothingElse ==
    /\ disk = EmptyDir
    /\ mem = [i \in Instances |-> load_metadata(EmptyDir)]
    /\ clock = 0
    /\ saved = NothingSaved
    /\ run = NotStarted

elsewhere == <<disk, mem, clock, saved, run>>

(* ---------------- the state machine: one predictor --------------------- *)
\* what the last call was given and what it did
NoCall ==
    [op |-> "none", T |-> 0, kind |-> "none", raised |-> NoError,
     ps_raised |-> NoError,
     X |-> <<>>, y |-> <<>>, split |-> 0,
     X_train |-> <<>>, X_val |-> <<>>, y_train |-> <<>>, y_val |-> <<>>,
     fit_called |-> FALSE, metrics |-> FALSE,
     forecast |-> <<>>, last_index |-> 0, insights |-> <<>>,
     predictions |-> <<>>, confidence |-> <<>>,
     has_confidence |-> TRUE, caught |-> NoError, report |-> <<>>]

\* the history of the calls on the predictor: the number of train calls
\* (2 stands for two or more), whether one returned, the table of the first
\* train call and of the first train call with at least one row and both
\* feature columns (T = 0: none yet), the number of model constructions and
\* of scaler fits (capped alike) and the train call each last happened in
NoHistory ==
    [train_calls |-> 0, train_ok |-> FALSE, first_T |-> 0, first_kind |-> "none",
     first_rows_T |-> 0, first_rows_kind |-> "none",
     builds |-> 0, build_at |-> 0, scaler_fits |-> 0, fit_at |-> 0]

Cap2(n) == Min2(n, 2)

\* AIReportGenerator.__init__: the generator owns a predictor of its own
NewGenerator == [predictor |-> NewPredictor]

Init ==
    /\ predictor = NewPredictor
    /\ generator = NewGenerator
    /\ last = NoCall
    /\ hist = NoHistory
    /\ NothingElse

\* mutant: the scaler is an attribute of the class, so every instance sees
\* the bounds the last fit on any instance stored
OtherInstance_ClassScaler(other, mine) ==
    [other EXCEPT !.scaler = mine.scaler, !.is_fitted = mine.is_fitted]

\* the state of another predictor after a call that left `mine` as the state
\* of the predictor it was made on: model, scaler and _is_fitted are set on
\* self in __init__, so the instances share nothing
OtherInstance(other, mine) == other

\* train on the standalone predictor, with a table of the set D
TrainOn(D) ==
    /\ predictor.model.weights < MaxFits
    /\ \E data \in D : \E r \in {train(predictor, data)} :
         LET call == Cap2(hist.train_calls + 1)
         IN /\ predictor' = r.self
            /\ last' = [NoCall EXCEPT
                          !.op = "train", !.T = Len(data.rows), !.kind = data.kind,
                          !.raised = r.raised, !.ps_raised = r.ps.raised,
                          !.X = r.ps.X, !.y = r.ps.y, !.split = r.split,
                          !.X_train = r.X_train, !.X_val = r.X_val,
                          !.y_train = r.y_train, !.y_val = r.y_val,
                          !.fit_called = r.fit_called, !.metrics = r.metrics]
            /\ hist' = [hist EXCEPT
                          !.train_calls = call,
                          !.train_ok = @ \/ r.raised = NoError,
                          !.first_T = IF hist.train_calls = 0 THEN Len(data.rows) ELSE @,
                          !.first_kind = IF hist.train_calls = 0 THEN data.kind ELSE @,
                          !.first_rows_T =
                              IF @ = 0 /\ HasFeatures(data)
                              THEN Len(data.rows) ELSE @,
                          !.first_rows_kind =
                              IF hist.first_rows_T = 0 /\ Len(data.rows) > 0
                                 /\ HasFeatures(data)
                              THEN data.kind ELSE @,
                          !.builds = IF r.built THEN Cap2(@ + 1) ELSE @,
                          !.build_at = IF r.built THEN call ELSE @,
                          !.scaler_fits = IF r.ps.fit_now THEN Cap2(@ + 1) ELSE @,
                          !.fit_at = IF r.ps.fit_now THEN call ELSE @]
            /\ generator' = [generator EXCEPT
                               !.predictor = OtherInstance(@, r.self)]
            /\ UNCHANGED elsewhere

Train == TrainOn(Datasets)

PredictFutureOn(D) ==
    \E data \in D : \E r \in {predict_future(predictor, data)} :
      /\ last' = [NoCall EXCEPT
                    !.op = "predict_future", !.T = Len(data.rows),
                    !.kind = data.kind, !.raised = r.raised,
                    !.forecast = r.forecast,
                    !.last_index = IF Len(data.index) = 0 THEN 0
                                   ELSE data.index[Len(data.index)]]
      /\ UNCHANGED <<predictor, generator, hist, elsewhere>>

PredictFuture == PredictFutureOn(Datasets)

GenerateInsightsOn(D) ==
    \E data \in D :
      /\ last' = [NoCall EXCEPT
                    !.op = "generate_insights", !.T = Len(data.rows),
                    !.kind = data.kind,
                    !.insights = generate_insights(predictor, data)]
      /\ UNCHANGED <<predictor, generator, hist, elsewhere>>

GenerateInsights == GenerateInsightsOn(Datasets)

Next == Train \/ PredictFuture \/ GenerateInsights

Spec == Init /\ [][Next]_vars

TypeOK ==
    /\ predictor.is_fitted \in BOOLEAN
    /\ predictor.model.built \in BOOLEAN
    /\ predictor.model.weights \in 0..MaxFits
    /\ last.op \in {"none", "train", "predict_future", "generate_insights"}

(* ---------------- a report generator beside a predictor --------------- *)
\* the tables of the calls: no row, one window, the shortest table a train
\* call completes on, a flat table and a table without kp_index
ReportDatasets ==
    { MkData(0, "ramp"), MkData(sequence_length, "ramp"),
      MkData(sequence_length + forecast_horizon + 2, "ramp"),
      MkData(sequence_length + forecast_horizon + MaxPairs, "flat"),
      MkData(sequence_length + forecast_horizon + MaxPairs, "nokp") }

TrainBeside == TrainOn(ReportDatasets)

PredictFutureBeside == PredictFutureOn(ReportDatasets)

GenerateInsightsBeside == GenerateInsightsOn(ReportDatasets)

\* generate_report on the generator, which trains and asks its own predictor
GenerateReport ==
    \E data \in ReportDatasets : \E r \in {generate_report(generator, data)} :
      /\ generator' = r.self
      /\ predictor' = OtherInstance(predictor, r.self.predictor)
      /\ last' = [NoCall EXCEPT
                    !.op = "generate_report", !.T = Len(data.rows),
                    !.kind = data.kind, !.raised = r.raised,
                    !.caught = r.caught, !.report = r.report]
      /\ UNCHANGED <<hist, elsewhere>>

NextReport ==
    TrainBeside \/ PredictFutureBeside \/ GenerateInsightsBeside \/ GenerateReport

SpecReport == Init /\ [][NextReport]_vars

(* ---------------- predict_future on tables with a common tail --------- *)
\* the tables the predictor is trained on
WindowTrainsets ==
    { MkData(sequence_length + forecast_horizon + MaxPairs, "late"),
      MkData(sequence_length + forecast_horizon + 2, "ramp"),
      MkData(sequence_length, "flat") }

\* the tables forecasts are asked for: the "late" tables of 24 and more rows
\* agree on their last 24 rows and on their last timestamp
WindowDatasets ==
    { MkData(T, "late") :
         T \in {0, sequence_length - 1, sequence_length, sequence_length + 1,
                sequence_length + 2, sequence_length + forecast_horizon,
                sequence_length + forecast_horizon + MaxPairs} }
    \cup { MkData(sequence_length + forecast_horizon + MaxPairs, k) :
             k \in {"ramp", "flat", "nokp"} }

TrainForWindow == TrainOn(WindowTrainsets)

PredictFutureOfWindow == PredictFutureOn(WindowDatasets)

NextWindow == TrainForWindow \/ PredictFutureOfWindow

SpecWindow == Init /\ [][NextWindow]_vars

(* ---------------- the insights on their own --------------------------- *)
\* the longest table the insights are computed on
MaxRows == sequence_length + forecast_horizon + MaxPairs

InsightKinds == {"ramp", "flat", "wave", "slow", "late", "nokp"}

InsightDatasets == { MkData(T, k) : T \in 0..MaxRows, k \in InsightKinds }

InitInsights ==
    /\ predictor = NewPredictor
    /\ generator = NewGenerator
    /\ hist = NoHistory
    /\ NothingElse
    /\ last \in { [NoCall EXCEPT !.op = "table", !.T = Len(d.rows), !.kind = d.kind] :
                     d \in InsightDatasets }

GenerateInsightsOfTable ==
    /\ last.op = "table"
    /\ GenerateInsightsOn({MkData(last.T, last.kind)})

NextInsights == GenerateInsightsOfTable

SpecInsights == InitInsights /\ [][NextInsights]_vars

(* ---------------- the report text on its own --------------------------- *)
\* the longest forecast the report is assembled from
MaxRecords == 2

\* the forecast records: a timestamp or NaT, two intensities, two confidences
ForecastRecords ==
    [timestamp : {NaT, 23 * Hour + 30}, predicted_intensity : {0, (3 * Unit) \div 2},
     confidence : {<<Unit, 2 * Unit>>, <<2 * Unit, 2 * Unit>>}]

Forecasts == UNION { [1..n -> ForecastRecords] : n \in 0..MaxRecords }

InsightLists ==
    { <<>>, <<"increasing trend">>, <<"decreasing trend", "high variability">> }

InitFormat ==
    /\ predictor = NewPredictor
    /\ generator = NewGenerator
    /\ hist = NoHistory
    /\ NothingElse
    /\ last \in { [NoCall EXCEPT !.op = "forecast", !.forecast = f,
                                  !.has_confidence = b, !.insights = i] :
                     f \in Forecasts, b \in BOOLEAN, i \in InsightLists }

AssembleReport ==
    /\ last.op = "forecast"
    /\ \E r \in {assemble_report(last.forecast,
                                   IF last.has_confidence THEN ForecastColumns
                                   ELSE ForecastColumns \ {"confidence"},
                                   last.insights)} :
          last' = [last EXCEPT !.op = "assemble_report", !.raised = r.raised,
                               !.caught = r.caught, !.report = r.report]
    /\ UNCHANGED <<predictor, generator, hist, elsewhere>>

NextFormat == AssembleReport

SpecFormat == InitFormat /\ [][NextFormat]_vars

(* ---------------- the confidence function on its own ------------------- *)
\* the longest vector of predicted values
MaxVecLen == 3

\* the predicted values (in 1/Unit) the vectors are made of: steps of 0, of
\* less than 2.0, of exactly 2.0 and of more occur between them
ConfValues == {0 - Unit, 0, 1, Unit \div 2, Unit, 2 * Unit - 1, 2 * Unit, 3 * Unit}

PredictionVectors == UNION { [1..n -> ConfValues] : n \in 1..MaxVecLen }

InitConf ==
    /\ predictor = NewPredictor
    /\ generator = NewGenerator
    /\ hist = NoHistory
    /\ NothingElse
    /\ last \in { [NoCall EXCEPT !.op = "predictions", !.predictions = v] :
                     v \in PredictionVectors }

CalculateConfidence ==
    /\ last.op = "predictions"
    /\ last' = [last EXCEPT !.op = "calculate_confidence",
                            !.confidence = calculate_confidence(last.predictions)]
    /\ UNCHANGED <<predictor, generator, hist, elsewhere>>

NextConf == CalculateConfidence

SpecConf == InitConf /\ [][NextConf]_vars

(* ---------------- one DataCache ---------------------------------------- *)
\* the (source, params) pairs of the save calls: the first two name one
\* entry
SaveRequests ==
    { <<"source1", ParamsAB>>, <<"source1", ParamsBA>>, <<"source2", ParamsAB>> }

\* the pairs of the get calls: also one under which nothing is saved
GetRequests == SaveRequests \cup { <<"source1", ParamsOther>> }

CacheTables == {CacheTable(1), CacheTable(5), EmptyTable}

\* max_age_hours of get: the default, 0 and one hour
GetAges == {DefaultMaxAge, 0, 1}

\* max_age_hours of clear: not given, 0 and one hour
ClearAges == {NoAge, 0, 1}

\* datetime.now() is read from a clock that other code does not set; two
\* readings can be equal
Tick ==
    /\ clock < MaxClock
    /\ clock' = clock + 1
    /\ UNCHANGED <<predictor, generator, last, hist, disk, mem, saved, run>>

\* DataCache(...) constructed on the directory as instance i
OpenOn(I) ==
    \E i \in I :
      /\ mem' = [mem EXCEPT ![i] = load_metadata(disk)]
      /\ last' = CacheCall("open", i, clock, NoSource, <<>>, NoAge, EmptyTable, None)
      /\ UNCHANGED <<predictor, generator, hist, disk, clock, saved, run>>

SaveOn(I, Reqs, Tables) ==
    \E i \in I, rq \in Reqs, df \in Tables :
      \E r \in {cache_save(mem[i], disk, clock, df, rq[1], rq[2])} :
        /\ mem' = [mem EXCEPT ![i] = r.metadata]
        /\ disk' = r.disk
        /\ saved' = NoteSave(saved, clock, df, rq[1], rq[2])
        /\ last' = CacheCall("save", i, clock, rq[1], rq[2], NoAge, df, None)
        /\ UNCHANGED <<predictor, generator, hist, clock, run>>

GetOn(I, Reqs, Ages) ==
    \E i \in I, rq \in Reqs, max_age \in Ages :
      \E r \in {cache_get(mem[i], disk, clock, rq[1], rq[2], max_age)} :
        /\ mem' = [mem EXCEPT ![i] = r.metadata]
        /\ disk' = r.disk
        /\ last' = CacheCall("get", i, clock, rq[1], rq[2], max_age,
                             EmptyTable, r.value)
        /\ UNCHANGED <<predictor, generator, hist, clock, saved, run>>

ClearOn(I, Srcs, Ages) ==
    \E i \in I, source \in Srcs, max_age \in Ages :
      \E r \in {cache_clear(mem[i], disk, clock, source, max_age)} :
        /\ mem' = [mem EXCEPT ![i] = r.metadata]
        /\ disk' = r.disk
        /\ saved' = NoteClear(saved, clock, source, max_age)
        /\ last' = CacheCall("clear", i, clock, source, <<>>, max_age,
                             EmptyTable, None)
        /\ UNCHANGED <<predictor, generator, hist, clock, run>>

Save == SaveOn({1}, SaveRequests, CacheTables)

Get == GetOn({1}, GetRequests, GetAges)

Clear == ClearOn({1}, Sources \cup {NoSource}, ClearAges)

NextCache == Save \/ Get \/ Clear \/ Tick

SpecCache == Init /\ [][NextCache]_vars

(* ---------------- two DataCache objects on one directory --------------- *)
SharedRequests == { <<"source1", ParamsAB>>, <<"source2", ParamsAB>> }

Open == OpenOn(Instances)

SaveShared == SaveOn(Instances, SharedRequests, {CacheTable(1)})

GetShared == GetOn(Instances, SharedRequests, {DefaultMaxAge})

ClearShared == ClearOn(Instances, Sources, {NoAge})

NextShared == Open \/ SaveShared \/ GetShared \/ ClearShared

SpecShared == Init /\ [][NextShared]_vars

(* ---------------- one run of main -------------------------------------- *)
ReportOutcomes == {"ok", "OSError"}

MainStep(rn) ==
    /\ run' = rn
    /\ UNCHANGED <<predictor, generator, last, hist, disk, mem, clock, saved>>

MainSetup ==
    /\ run.pc = "start"
    /\ \E o \in {"ok", "ConfigurationError", "OSError"} :
          MainStep(main_setup(run, o))

MainFetch ==
    /\ run.pc = "fetch"
    /\ \E o \in {"ok"} \cup StageRaises, data \in FetchedTables :
          (o = "ok" \/ data = NoTable) /\ MainStep(main_fetch(run, o, data))

MainValidate ==
    /\ run.pc = "validate"
    /\ \E ro \in ReportOutcomes : MainStep(main_validate(run, ro))

MainPreprocess ==
    /\ run.pc = "preprocess"
    /\ \E o \in {"ok"} \cup StageRaises, processed \in ProcessedTables(run.data),
          ro \in ReportOutcomes :
          /\ o = "ok" \/ processed = NoTable
          /\ MainStep(main_preprocess(run, o, processed, ro))

MainTrain ==
    /\ run.pc = "train"
    /\ \E o \in {"ok"} \cup StageRaises, model \in {"None", "model"},
          ro \in ReportOutcomes :
          /\ o = "ok" \/ model = "None"
          /\ MainStep(main_train(run, o, model, ro))

MainPredict ==
    /\ run.pc = "predict"
    /\ \E o \in {"ok"} \cup StageRaises, prediction \in {"None", "[0]", "[1]"},
          ro \in ReportOutcomes :
          /\ o = "ok" \/ prediction = "None"
          /\ MainStep(main_predict(run, o, prediction, ro))

MainVisualize ==
    /\ run.pc = "visualize"
    /\ \E o \in {"ok"} \cup StageRaises, ro \in ReportOutcomes :
          MainStep(main_visualize(run, o, ro))

NextMain ==
    \/ MainSetup \/ MainFetch \/ MainValidate \/ MainPreprocess
    \/ MainTrain \/ MainPredict \/ MainVisualize

SpecMain == Init /\ [][NextMain]_vars

(* ======================= the claims =================================== *)
L == sequence_length
H == forecast_horizon

\* C1: on a predictor on which train has never been called, predict_future
\* fails with the not-trained error for every input and returns no forecast.
C1_PredictBeforeTrain ==
    (last.op = "predict_future" /\ hist.train_calls = 0)
        => (last.raised = NotTrainedError /\ last.forecast = <<>>)

\* predict_future was called with a full window before any train call
C1_Witness ==
    /\ last.op = "predict_future"
    /\ hist.train_calls = 0
    /\ last.T >= L
    /\ last.raised = NotTrainedError

\* C2: predict_future returns a forecast only if an earlier train call on the
\* predictor completed; while every earlier train call failed, predict_future
\* fails with the not-trained error.
C2_ForecastOnlyAfterCompletedTrain ==
    (last.op = "predict_future" /\ ~hist.train_ok)
        => (last.raised = NotTrainedError /\ last.forecast = <<>>)

\* the error the specification names for too few observations; no statement
\* of the source raises it
InsufficientDataError == [msg |-> "insufficient data", cause |-> ""]

\* C3: train on T < L + H observations (T = 0 included) fails with the
\* insufficient-data error, never calls the model's fit and returns no metrics.
C3_ShortTrainIsInsufficientData ==
    (last.op = "train" /\ last.T < L + H)
        => /\ last.raised = InsufficientDataError
           /\ ~last.fit_called
           /\ ~last.metrics

\* C4: train on exactly T = L + H observations builds exactly one pair.
C4_OnePairAtLPlusH ==
    (last.op = "train" /\ last.T = L + H) => Len(last.X) = 1

\* C5: for every T >= 0 the sequence builder yields exactly max(0, T - L - H)
\* pairs, as many input windows as target windows, and for T < L + H it
\* yields zero pairs without raising.
C5_PairCount ==
    last.op = "train"
        => /\ last.ps_raised = NoError
           /\ Len(last.X) = Max2(0, last.T - L - H)
           /\ Len(last.y) = Len(last.X)

\* the scaled rows of the table of the last train call
LastScaledRows == ScalerTransform(predictor.scaler, RowsOf(last.T, last.kind))

\* C6: pair i (0-based) is scaled rows [i, i+L) with all features and column
\* 0 of scaled rows [i+L, i+L+H): the target starts right after the input
\* window's last row and consecutive pairs advance by one row.
C6_WindowsAreContiguous ==
    last.op = "train"
        => \A p \in 1..Len(last.X) :
             /\ Len(last.X[p]) = L
             /\ \A k \in 1..L : last.X[p][k] = LastScaledRows[p - 1 + k]
             /\ Len(last.y[p]) = H
             /\ \A k \in 1..H : last.y[p][k] = LastScaledRows[p - 1 + L + k][1]

\* a train call built several pairs from rows whose two features differ
C6_Witness ==
    /\ last.op = "train"
    /\ Len(last.X) >= 2
    /\ last.X[1] # last.X[2]
    /\ last.y[1] # last.y[2]
    /\ \E k \in 1..L : last.X[1][k][1] # last.X[1][k][2]

\* the bounds a fit on the given table computes
BoundsOf(T, kind) == ScalerFit(RowsOf(T, kind))

\* C7 as stated: the bounds are fitted once, on the data of the first train
\* call, and never change.
C7_FittedOnFirstTrainCall ==
    /\ hist.scaler_fits <= 1
    /\ predictor.is_fitted
         => /\ hist.fit_at = 1
            /\ hist.first_T >= 1
            /\ predictor.scaler = BoundsOf(hist.first_T, hist.first_kind)

\* C7 amended: the bounds are fitted at most once, on the data of the first
\* train call that has at least one row and both feature columns, and no
\* later call changes them:
\* every later train scales with these bounds.
C7_FittedOnceOnFirstRows ==
    /\ hist.scaler_fits <= 1
    /\ predictor.is_fitted <=> hist.first_rows_T >= 1
    /\ predictor.is_fitted
         => predictor.scaler = BoundsOf(hist.first_rows_T, hist.first_rows_kind)
    /\ (last.op = "train" /\ Len(last.X) >= 1)
         => last.X[1] =
              SubSeq(ScalerTransform(
                        BoundsOf(hist.first_rows_T, hist.first_rows_kind),
                        RowsOf(last.T, last.kind)), 1, L)

\* a later train call brought a table with other bounds than the fitted ones
C7_Witness ==
    /\ predictor.is_fitted
    /\ hist.train_calls = 2
    /\ last.op = "train"
    /\ Len(last.X) >= 1
    /\ BoundsOf(last.T, last.kind) # predictor.scaler

\* C8: once the predictor is TRAINED (scaler fitted and model built) no call,
\* successful or failing, returns it to UNTRAINED.
C8_TrainedIsOneWay ==
    [][(predictor.is_fitted /\ predictor.model.built)
          => (predictor.is_fitted /\ predictor.model.built)']_vars

\* a call failed on a predictor that was trained, and it is still trained
C8_Witness ==
    /\ hist.train_ok
    /\ last.raised # NoError
    /\ predictor.is_fitted /\ predictor.model.built

\* C9 as stated: the model is constructed at most once, on the first train
\* call, with input shape (L, F) and H outputs.
C9_BuiltOnFirstTrainCall ==
    /\ hist.builds <= 1
    /\ predictor.model.built
         => /\ hist.build_at = 1
            /\ predictor.model.input_shape = <<L, n_features>>
            /\ predictor.model.units = H

\* C9 amended: the model is constructed at most once, on the first train call
\* that has at least one row and both feature columns, with input shape
\* (L, F) = (24, 2) and H = 12 outputs; no later train call rebuilds it or
\* changes its shape.
C9_BuiltOnceOnFirstRows ==
    /\ hist.builds <= 1
    /\ predictor.model.built <=> hist.first_rows_T >= 1
    /\ predictor.model.built
         => /\ predictor.model.input_shape = <<24, 2>>
            /\ predictor.model.units = 12

\* two train calls completed on the one model
C9_Witness ==
    /\ predictor.model.built
    /\ predictor.model.weights = 2
    /\ hist.builds = 1

\* C10: a successful predict_future returns exactly H records whose
\* timestamps start one hour after the last input timestamp and are one hour
\* apart, whatever the number of input rows.
C10_ForecastTimestamps ==
    (last.op = "predict_future" /\ last.raised = NoError)
        => /\ Len(last.forecast) = 12
           /\ last.forecast[1].timestamp = last.last_index + 60
           /\ \A k \in 1..(Len(last.forecast) - 1) :
                 last.forecast[k + 1].timestamp = last.forecast[k].timestamp + 60

\* a forecast was returned for a table longer than one window
C10_Witness ==
    /\ last.op = "predict_future"
    /\ last.raised = NoError
    /\ last.T > L
    /\ Len(last.forecast) = H

\* C11: for every non-empty vector of predicted values the confidence vector
\* has the same length, its first entry is exactly 1 and every entry lies in
\* [0, 1].
C11_ConfidenceShapeAndRange ==
    last.op = "calculate_confidence"
        => /\ Len(last.confidence) = Len(last.predictions)
           /\ last.confidence[1][1] = last.confidence[1][2]
           /\ \A i \in 1..Len(last.confidence) :
                 /\ last.confidence[i][2] > 0
                 /\ 0 <= last.confidence[i][1]
                 /\ last.confidence[i][1] <= last.confidence[i][2]

\* the confidence of a vector with a step of more than 2.0 (clipped to 0) and
\* a step of less than 2.0 (strictly between 0 and 1)
C11_Witness ==
    /\ last.op = "calculate_confidence"
    /\ Len(last.predictions) >= 3
    /\ \E i \in 2..Len(last.predictions) :
          /\ Abs(last.predictions[i] - last.predictions[i - 1]) > 2 * Unit
          /\ last.confidence[i][1] = 0
    /\ \E i \in 2..Len(last.predictions) :
          /\ 0 < last.confidence[i][1]
          /\ last.confidence[i][1] < last.confidence[i][2]

\* C12: in a forecast, for every index i > 0 the confidence is
\* clip(1 - |predicted[i] - predicted[i-1]| / 2, 0, 1), on the predicted
\* values in original units: equal consecutive predictions give 1, a step of
\* 2.0 or more gives 0.
C12_ConfidenceFromSteps ==
    (last.op = "predict_future" /\ last.raised = NoError)
        => \A i \in 2..Len(last.forecast) :
             LET d == Abs(last.forecast[i].predicted_intensity
                          - last.forecast[i - 1].predicted_intensity)
                 c == last.forecast[i].confidence
             IN /\ c[2] = 2 * Unit
                /\ d = 0 => c[1] = c[2]
                /\ d >= 2 * Unit => c[1] = 0
                /\ (0 < d /\ d < 2 * Unit) => c[1] = 2 * Unit - d

\* a forecast with two equal consecutive predictions (confidence 1) and with
\* a step of 1.0 (confidence 1/2)
C12_Witness ==
    /\ last.op = "predict_future"
    /\ last.raised = NoError
    /\ \E i \in 2..Len(last.forecast) :
          /\ last.forecast[i].predicted_intensity
                = last.forecast[i - 1].predicted_intensity
          /\ last.forecast[i].confidence = <<2 * Unit, 2 * Unit>>
    /\ \E i \in 2..Len(last.forecast) :
          /\ Abs(last.forecast[i].predicted_intensity
                 - last.forecast[i - 1].predicted_intensity) = Unit
          /\ last.forecast[i].confidence = <<Unit, 2 * Unit>>

\* C13: on a TRAINED predictor every failure inside the predict path (no
\* row, fewer than L rows, a missing feature column) makes predict_future
\* fail with the prediction error that carries the message of the cause, and
\* no forecast is returned; a call that returns a forecast returns all H records.
C13_PredictFailuresAreWrapped ==
    (last.op = "predict_future" /\ IsTrained(predictor))
        => /\ last.raised # NoError
                 => /\ last.raised.msg = "Error making prediction"
                    /\ last.raised.cause \notin {"", "none"}
                    /\ last.forecast = <<>>
           /\ last.kind = "nokp" => last.raised.cause = MissingColumnError.msg
           /\ last.T = 0 => last.raised.cause = EmptyInputError.msg
           /\ (0 < last.T /\ last.T < L) => last.raised.cause = ShapeError.msg
           /\ last.raised = NoError => Len(last.forecast) = H

\* a trained predictor was given fewer than L rows and failed with the
\* prediction error
C13_Witness ==
    /\ last.op = "predict_future"
    /\ IsTrained(predictor)
    /\ hist.train_ok
    /\ 0 < last.T /\ last.T < L
    /\ last.raised = [msg |-> "Error making prediction", cause |-> ShapeError.msg]
    /\ last.forecast = <<>>

\* C14: train splits its N pairs in temporal order: the training partition
\* is the first floor(0.8 * N) pairs and the validation partition is the rest,
\* so the two are disjoint, cover all pairs and every validation pair comes
\* after every training pair.
C14_TemporalSplit ==
    (last.op = "train" /\ last.fit_called)
        => LET N == Len(last.X)
               n == Len(last.X_train)
           IN /\ 5 * n <= 4 * N /\ 4 * N < 5 * (n + 1)
              /\ Len(last.y_train) = n
              /\ last.X_train \o last.X_val = last.X
              /\ last.y_train \o last.y_val = last.y

\* a train call split three distinct pairs into two training pairs and one
\* validation pair
C14_Witness ==
    /\ last.op = "train"
    /\ last.raised = NoError
    /\ Len(last.X) = 3
    /\ Len(last.X_train) = 2 /\ Len(last.X_val) = 1
    /\ last.X[1] # last.X[2] /\ last.X[2] # last.X[3]
    /\ last.X_val[1] = last.X[3]

\* the texts of the lines of the last report
LastTexts == { last.report[k].text : k \in 1..Len(last.report) }

\* C15: when the forecast handed to the report assembly has zero records,
\* generate_report yields the no-forecast-data outcome, which no other input
\* yields, and the returned text has no peak-activity line, no confidence
\* figure and no per-step listing.
C15_EmptyForecastOutcome ==
    last.op = "assemble_report"
        => /\ last.forecast = <<>>
                 => /\ last.caught = [msg |-> "No forecast data generated", cause |-> ""]
                    /\ Len(last.report) = 1
                    /\ last.report[1].text = "Error generating report"
                    /\ last.report[1].arg = "No forecast data generated"
                    /\ LastTexts \cap {"Peak Activity", "Average Confidence",
                                        "Predictions for next 12 hours:",
                                        "prediction"} = {}
           /\ last.forecast # <<>>
                 => /\ last.caught.msg # "No forecast data generated"
                    /\ \A k \in 1..Len(last.report) :
                          last.report[k].arg # "No forecast data generated"

\* the report was assembled from a forecast of zero records and some insights
C15_Witness ==
    /\ last.op = "assemble_report"
    /\ last.forecast = <<>>
    /\ last.insights # <<>>
    /\ last.has_confidence
    /\ Len(last.report) = 1

\* the forecast cannot be formatted: it lacks the confidence column or one of
\* its timestamps is not a time
FormattingFails ==
    /\ last.forecast # <<>>
    /\ \/ ~last.has_confidence
       \/ \E k \in 1..Len(last.forecast) : last.forecast[k].timestamp = NaT

\* C16: when formatting the forecast details fails, the failure is caught and
\* the placeholder line stands in its place: the call returns a report that
\* starts with the header and ends with the placeholder line, the Key Insights
\* section with every insight and the Recommendations section.
C16_FormattingFailureIsContained ==
    (last.op = "assemble_report" /\ FormattingFails)
        => LET n == Len(last.report)
               m == Len(last.insights)
           IN /\ last.raised = NoError /\ last.caught = NoError
              /\ n >= 15 + m
              /\ last.report[1].text = "AI-Powered Solar Activity Analysis"
              /\ last.report[4].text = "Forecast Summary:"
              /\ Cardinality({k \in 1..n : last.report[k].text
                                   = "Error processing forecast details"}) = 1
              /\ last.report[n - m - 9].text = "Error processing forecast details"
              /\ last.report[n - m - 7].text = "Key Insights:"
              /\ \A k \in 1..m :
                    /\ last.report[n - m - 6 + k].text = "bullet"
                    /\ last.report[n - m - 6 + k].arg = last.insights[k]
              /\ last.report[n - 4].text = "Recommendations:"
              /\ \A k \in (n - 2)..n : last.report[k].text = "bullet"
              /\ "Error generating report" \notin LastTexts

\* the second record of a forecast could not be formatted: the report holds
\* the summary, the line of the first record, the placeholder and two insights
C16_Witness ==
    /\ last.op = "assemble_report"
    /\ last.has_confidence
    /\ Len(last.forecast) = 2
    /\ last.forecast[1].timestamp # NaT
    /\ last.forecast[2].timestamp = NaT
    /\ Len(last.insights) = 2
    /\ "Peak Activity" \in LastTexts
    /\ Cardinality({k \in 1..Len(last.report) : last.report[k].text = "prediction"}) = 1
    /\ "Error processing forecast details" \in LastTexts

\* C17 as stated: a failed train, predict_future or generate_report call is
\* told from a successful one by an error outcome: when generate_report
\* fails inside (the not-trained, a training or a prediction error), the call
\* raises.
C17_FailuresAreRaised ==
    /\ (last.op = "train" /\ ~last.metrics) => last.raised # NoError
    /\ (last.op = "predict_future" /\ last.forecast = <<>>)
          => last.raised # NoError
    /\ (last.op = "generate_report" /\ last.caught # NoError)
          => last.raised # NoError
    /\ (last.op = "generate_report" /\ last.raised = NoError)
          => "Error generating report" \notin LastTexts

\* C18: no call on one predictor changes the scaler bounds, the model or the
\* trained status of another: the calls on the standalone predictor leave
\* the generator's predictor as it was, and generate_report leaves the
\* standalone predictor as it was.
C18_InstancesAreIsolated ==
    [][/\ last'.op \in {"train", "predict_future", "generate_insights"}
            => generator' = generator
       /\ last'.op = "generate_report" => predictor' = predictor]_vars

\* both predictors are trained, on tables with different bounds
C18_Witness ==
    /\ IsTrained(predictor)
    /\ IsTrained(generator.predictor)
    /\ predictor.scaler # generator.predictor.scaler
    /\ predictor.model.weights # generator.predictor.model.weights

\* the intensity column of the table of the last call
LastIntensity == Column(RowsOf(last.T, last.kind), 1)

\* the trend insights among the insights of the last call
LastTrends ==
    { last.insights[k] : k \in 1..Len(last.insights) }
        \cap {"increasing trend", "decreasing trend"}

\* C19 as stated: on every strictly increasing intensity series of 24 or more
\* points generate_insights returns the "increasing" insight, and on a flat
\* series it returns no trend insight.
C19_IncreasingSeriesIsReported ==
    last.op = "generate_insights"
        => LET x == LastIntensity
           IN /\ (last.T >= 24 /\ \A j \in 2..last.T : x[j - 1] < x[j])
                    => "increasing trend" \in LastTrends
              /\ (\A j \in 2..last.T : x[j - 1] = x[j]) => LastTrends = {}

\* C19 amended: generate_insights returns the "increasing" insight exactly
\* when the mean change of the intensity over the trailing 24 points (all
\* points of a shorter series) is greater than 0.1; a series that rises more
\* slowly, or is flat, gets no trend insight.
C19_IncreasingAboveThreshold ==
    last.op = "generate_insights"
        => LET x == LastIntensity
               n == Min2(last.T, 24)
               rise == x[last.T] - x[last.T - n + 1]
           IN /\ "increasing trend" \in LastTrends
                    <=> (last.T >= 2 /\ 10 * rise > Unit * (n - 1))
              /\ (last.T >= 2 /\ 0 <= 10 * rise /\ 10 * rise <= Unit * (n - 1))
                    => LastTrends = {}
              /\ last.kind \in {"flat", "slow"} => LastTrends = {}
              /\ (last.kind = "ramp" /\ last.T >= 2)
                    => LastTrends = {"increasing trend"}

\* the insights of a series of more than 24 points that rises by 1.0 an hour
C19_Witness ==
    /\ last.op = "generate_insights"
    /\ last.T > 24
    /\ \A j \in 2..last.T : LastIntensity[j] = LastIntensity[j - 1] + Unit
    /\ "increasing trend" \in LastTrends

\* C20: every insight depends only on the trailing 24 observations: a table
\* that agrees with the table of the call on its last 24 rows (and on its
\* columns) yields the same insight list.
C20_InsightsDependOnTrailingRows ==
    last.op = "generate_insights"
        => \A d \in InsightDatasets :
              (/\ Len(d.rows) >= 24 /\ last.T >= 24
               /\ d.columns = MkData(last.T, last.kind).columns
               /\ TailRows(d.rows, 24) = TailRows(RowsOf(last.T, last.kind), 24))
                  => generate_insights(predictor, d) = last.insights

\* table d has the columns, the last 24 rows and the last timestamp of the
\* table of T rows of the given kind
AgreeOnWindow(d, T, kind) ==
    LET e == MkData(T, kind)
    IN /\ d.columns = e.columns
       /\ Len(d.rows) >= 24 /\ T >= 24
       /\ \A i \in 1..24 : d.rows[Len(d.rows) - 24 + i] = e.rows[T - 24 + i]
       /\ d.index[Len(d.index)] = e.index[T]

\* C25: main never raises; it calls the stages in the order fetch,
\* validate, preprocess, train, predict, visualize, each at most once; it
\* returns True only after all of them were called; and when the fetched
\* data is empty or lacks a required column it returns False and none of
\* preprocess_data, train_model, predict_event and visualize_data was called.
C25_MainStagesInOrder ==
    /\ run.raised = "none"
    /\ Len(run.calls) <= Len(Stages)
    /\ \A i \in 1..Len(run.calls) : run.calls[i] = Stages[i]
    /\ run.returned = "True" => run.calls = Stages
    /\ (/\ run.pc = "done"
        /\ Len(run.calls) >= 1
        /\ IsEmptyTable(run.data) \/ required_columns \ run.data.columns # {})
          => /\ run.returned = "False"
             /\ \A i \in 1..Len(run.calls) :
                   run.calls[i] \in {"fetch", "validate"}

\* main returned True after the six stages, with a prediction of None
C25_Witness ==
    /\ run.pc = "done"
    /\ run.returned = "True"
    /\ run.calls = Stages
    /\ run.prediction = "None"
    /\ validate_data(run.data) = "none"

\* C26: the forecast depends only on the most recent 24 observations and on
\* the frozen scaler and model: a predict_future call leaves the scaler bounds
\* and the model as they were, and every table that agrees with its table on
\* the last 24 rows and the last timestamp yields the same outcome on the
\* predictor.
C26_ForecastDependsOnWindow ==
    [][last'.op = "predict_future"
          => /\ predictor'.scaler = predictor.scaler
             /\ predictor'.model = predictor.model
             /\ predictor'.is_fitted = predictor.is_fitted
             /\ \A d \in WindowDatasets :
                   AgreeOnWindow(d, last'.T, last'.kind)
                      => LET r == predict_future(predictor, d)
                         IN /\ r.raised = last'.raised
                            /\ r.forecast = last'.forecast]_vars

\* a forecast was returned for a table of more than 24 rows that shares its
\* last 24 rows and last timestamp with a shorter table with other bounds
C26_Witness ==
    /\ last.op = "predict_future"
    /\ last.raised = NoError
    /\ hist.train_ok
    /\ last.kind = "late"
    /\ last.T > 24
    /\ AgreeOnWindow(MkData(24, "late"), last.T, last.kind)
    /\ MkData(24, "late").rows # MkData(last.T, "late").rows
    /\ Len(last.forecast) = H

\* C27: a train call that fails leaves the predictor exactly as it was before
\* the call: fitted flag, bounds, model and trained status.
C27_FailedTrainChangesNothing ==
    [][(last'.op = "train" /\ last'.raised # NoError)
          => predictor' = predictor]_vars

\* C28: whenever the sequence builder yields at least one pair, both
\* partitions that train passes to the fit are non-empty.
C28_PartitionsNonEmpty ==
    (last.op = "train" /\ last.fit_called /\ Len(last.X) >= 1)
        => /\ Len(last.X_train) >= 1
           /\ Len(last.X_val) >= 1

\* C29: on one report generator a forecast report is produced only from a
\* model whose training completed, and a model whose training completed is
\* not trained again.
C29_ReportOnlyFromTrainedModel ==
    /\ (last.op = "generate_report" /\ last.caught = NoError)
          => generator.predictor.model.weights >= 1
    /\ generator.predictor.model.weights <= 1

C22_ExpiredIsNone ==
    (last.op = "get")
        => LET g == SavedKey(last.source, last.params)
           IN (/\ g \in DOMAIN saved
               /\ last.now - saved[g].timestamp > HourTicks * last.max_age)
                 => last.value = None

\* a get with max_age_hours = 0 returned None for an entry that is in the
\* metadata and on disk, saved at an earlier clock reading
C22_Witness ==
    /\ last.op = "get"
    /\ last.max_age = 0
    /\ last.value = None
    /\ SavedKey(last.source, last.params) \in DOMAIN saved
    /\ saved[SavedKey(last.source, last.params)].kept
    /\ last.now > saved[SavedKey(last.source, last.params)].timestamp
    /\ generate_cache_key(last.source, last.params) \in DOMAIN mem[last.instance]
    /\ generate_cache_key(last.source, last.params) \in DOMAIN disk.files

\* C23: a clear call with a source, with or without max_age_hours, clears
\* only that source: afterwards get returns None for every entry of the
\* source, and every entry of another source is still in the metadata and on
\* disk and get returns what it returned before.
C23_ClearSourceOnly ==
    [][(last'.op = "clear" /\ last'.source # NoSource /\ clock' = clock)
          => /\ \A rq \in GetRequests : \A m \in GetAges :
                   rq[1] = last'.source
                      => cache_get(mem'[1], disk', clock', rq[1], rq[2], m).value
                            = None
             /\ \A key \in DOMAIN mem[1] :
                   mem[1][key].source # last'.source
                      => /\ key \in DOMAIN mem'[1]
                         /\ key \in DOMAIN disk'.metadata
                         /\ mem[1][key].filename \in DOMAIN disk'.files
             /\ \A rq \in GetRequests : \A m \in GetAges :
                   rq[1] # last'.source
                      => cache_get(mem'[1], disk', clock', rq[1], rq[2], m).value
                            = cache_get(mem[1], disk, clock, rq[1], rq[2], m).value]_vars

\* C24: after clear() with no arguments get returns None for every source
\* and parameters saved before.
C24_ClearAll ==
    (last.op = "clear" /\ last.source = NoSource /\ last.max_age = NoAge)
        => \A rq \in GetRequests : \A m \in GetAges :
              cache_get(mem[1], disk, clock, rq[1], rq[2], m).value = None

\* C30: with two DataCache objects on one directory, every entry saved
\* through either and not cleared since is in the on-disk metadata: a
\* DataCache constructed now returns it.
C30_SavedEntriesSurvive ==
    \A g \in DOMAIN saved :
       saved[g].kept
          => \E rq \in SharedRequests :
                /\ SavedKey(rq[1], rq[2]) = g
                /\ generate_cache_key(rq[1], rq[2]) \in DOMAIN disk.metadata
                /\ cache_get(load_metadata(disk), disk, clock, rq[1], rq[2],
                             DefaultMaxAge).value = Some(saved[g].df)

====
